---------------------------- MODULE Spec2Model ----------------------------
(***************************************************************************)
(* A model of the vmdk crate: the binary extent-header decoder and the     *)
(* container aggregate of src/lib.rs, and the descriptor-text parser of    *)
(* src/descriptor.rs.                                                      *)
(*                                                                         *)
(* Representation.  A Rust &str is modelled by a TLA+ string; the only     *)
(* operations used on it are Len, SubSeq and \o, which TLC evaluates on    *)
(* strings.  TLC's integers are 32 bits wide, so a u32 / u64 of the        *)
(* program is a sequence of 4 / 8 base-256 digits, least significant       *)
(* first (the order in which the header stores them), and arithmetic on    *)
(* them carries digit by digit, so that overflow of the program's width    *)
(* is visible.  A Result is a record tagged "Ok" / "Err"; a panic, which   *)
(* unwinds out of the function instead of returning, is tagged "Panic".    *)
(***************************************************************************)
EXTENDS Integers, Sequences, FiniteSets, TLC

VARIABLES
    \* One call of a public function of src/descriptor.rs (SpecParse):
    call,      \* which function is called
    arg,       \* the &str it is called with
    gen,       \* how arg was put together (ghost)
    ret,       \* what the call returned
    \* One call of Vmdk::new (Spec):
    vgen,      \* how the file was put together (ghost)
    build,     \* the build: overflow checks on or off, usize of 4 or 8 bytes
    file,      \* the file at the path: whether it exists, and its bytes
    pc,        \* the statement Vmdk::new is at
    pos,       \* the file cursor
    fields,    \* ExtentHeader::new's locals, in the order they are read
    header,    \* the ExtentHeader, once ExtentHeader::new has built it
    size,      \* desc_size_in_bytes converted to usize, once computed
    buf,       \* the bytes read_exact has put into buf
    vret       \* what Vmdk::new returned

-----------------------------------------------------------------------------
(* Results and options *)

Ok(v)    == [tag |-> "Ok", val |-> v]
Err(e)   == [tag |-> "Err", err |-> e]
Panic(m) == [tag |-> "Panic", msg |-> m]

IsOk(r)    == r.tag = "Ok"
IsErr(r)   == r.tag = "Err"
IsPanic(r) == r.tag = "Panic"

\* The error values the crate returns.  VmdkError's variants carry no data;
\* InvalidDisk is the variant src/descriptor.rs names.  ParseIntError is
\* core::num's, wrapped unchanged by `?`.
ParseError    == [kind |-> "ParseError"]
InvalidDisk   == [kind |-> "InvalidDisk"]
ParseIntError == [kind |-> "ParseIntError"]

None    == [some |-> FALSE]
Some(v) == [some |-> TRUE, v |-> v]

-----------------------------------------------------------------------------
(* Fixed-width unsigned integers *)

Zero(w) == [i \in 1..w |-> 0]

\* x * m + c on little-endian base-256 digits; the result has one digit more
\* than x, the last being the carry out of x's width.
RECURSIVE MulAddDigits(_, _, _)
MulAddDigits(x, m, c) ==
    IF x = <<>> THEN <<c>>
    ELSE LET t == Head(x) * m + c
         IN  <<t % 256>> \o MulAddDigits(Tail(x), m, t \div 256)

\* checked_mul(m) followed by checked_add(c): None on overflow of x's width.
CheckedMulAdd(x, m, c) ==
    LET r == MulAddDigits(x, m, c)
    IN  IF r[Len(x) + 1] # 0 THEN None ELSE Some(SubSeq(r, 1, Len(x)))

\* A number below 2^31 as a w-digit value.
RECURSIVE FromNat(_, _)
FromNat(n, w) == IF w = 0 THEN <<>> ELSE <<n % 256>> \o FromNat(n \div 256, w - 1)

-----------------------------------------------------------------------------
(* &str operations of the standard library, as the parser uses them *)

CharAt(s, i) == SubSeq(s, i, i)

\* str::starts_with
StartsWith(s, p) == Len(s) >= Len(p) /\ SubSeq(s, 1, Len(p)) = p

\* The least index >= from at which pat occurs in s, or 0.
FindFrom(s, pat, from) ==
    LET hits == {i \in from..(Len(s) - Len(pat) + 1) : SubSeq(s, i, i + Len(pat) - 1) = pat}
    IN  IF hits = {} THEN 0 ELSE CHOOSE i \in hits : \A j \in hits : i <= j

\* str::split(pat) for a non-empty pat: the pieces between the successive
\* leftmost occurrences of pat, empty pieces included.
RECURSIVE SplitFrom(_, _, _)
SplitFrom(s, pat, from) ==
    LET i == FindFrom(s, pat, from)
    IN  IF i = 0 THEN <<SubSeq(s, from, Len(s))>>
        ELSE <<SubSeq(s, from, i - 1)>> \o SplitFrom(s, pat, i + Len(pat))

Split(s, pat) == SplitFrom(s, pat, 1)

\* Iterator::filter(|x| x.len() != 0)
NonEmpty(pieces) == SelectSeq(pieces, LAMBDA x : Len(x) # 0)

\* str::trim_start_matches(p): p removed from the front as often as it occurs.
RECURSIVE TrimStartMatches(_, _)
TrimStartMatches(s, p) ==
    IF StartsWith(s, p) THEN TrimStartMatches(SubSeq(s, Len(p) + 1, Len(s)), p) ELSE s

\* char::to_digit(radix): the digit's value, or -1 when the character is no
\* digit of the radix.  Letters count in either case.
Digits      == "0123456789abcdefghijklmnopqrstuvwxyz"
DigitsUpper == "0123456789ABCDEFGHIJKLMNOPQRSTUVWXYZ"
ToDigit(c, radix) ==
    LET hits == {i \in 1..radix : CharAt(Digits, i) = c \/ CharAt(DigitsUpper, i) = c}
    IN  IF hits = {} THEN -1 ELSE (CHOOSE i \in hits : TRUE) - 1

\* The digit loop of from_str_radix: checked multiply-and-add per character.
RECURSIVE ParseDigits(_, _, _, _)
ParseDigits(s, i, radix, acc) ==
    IF i > Len(s) THEN Ok(acc)
    ELSE LET d == ToDigit(CharAt(s, i), radix)
         IN  IF d < 0 THEN Err(ParseIntError)
             ELSE LET n == CheckedMulAdd(acc, radix, d)
                  IN  IF ~n.some THEN Err(ParseIntError)
                      ELSE ParseDigits(s, i + 1, radix, n.v)

\* <unsigned>::from_str_radix(s, radix) for a type of w bytes: one optional
\* leading '+', then at least one digit; a '-' is no digit of an unsigned type.
FromStrRadix(s, radix, w) ==
    LET digits == IF StartsWith(s, "+") THEN SubSeq(s, 2, Len(s)) ELSE s
    IN  IF Len(digits) = 0 THEN Err(ParseIntError)
        ELSE ParseDigits(digits, 1, radix, Zero(w))

-----------------------------------------------------------------------------
(* src/descriptor.rs *)

\* A sentinel of 0x7fffffff, as a signed reading of the field would have it.
CID_NOPARENT_Signed == <<255, 255, 255, 127>>

CID_NOPARENT == <<255, 255, 255, 255>>     \* 0xffffffff

\* A match on the start of the tag instead of the whole tag.
ExtentTypeFromStr_Prefix(s) ==
    IF StartsWith(s, "SPARSE") THEN Ok("Sparse") ELSE Err(InvalidDisk)

\* impl FromStr for ExtentType
ExtentTypeFromStr(s) ==
    IF s = "SPARSE" THEN Ok("Sparse") ELSE Err(InvalidDisk)

\* impl FromStr for DiskType
DiskTypeFromStr(s) ==
    IF s = "\"monolithicSparse\"" THEN Ok("MonolithicSparse") ELSE Err(InvalidDisk)

\* impl FromStr for ExtentDescriptor: the fields are read in order, each `?`
\* returning the first error met.  perms and sectors are read and dropped.
ExtentDescriptorFromStr(s) ==
    LET items == Split(s, " ")
    IN  IF Len(items) < 1 THEN Err(ParseError)
        ELSE IF Len(items) < 2 THEN Err(ParseError)
        ELSE LET sectors == FromStrRadix(items[2], 10, 8)
             IN  IF IsErr(sectors) THEN sectors
                 ELSE IF Len(items) < 3 THEN Err(ParseError)
                 ELSE LET extent_type == ExtentTypeFromStr(items[3])
                      IN  IF IsErr(extent_type) THEN extent_type
                          ELSE IF Len(items) < 4 THEN Err(ParseError)
                          ELSE Ok([extent_type |-> extent_type.val, path |-> items[4]])

\* Descriptor::default()
DescriptorDefault ==
    [version            |-> Zero(4),
     cid                |-> Zero(4),
     parent_cid         |-> None,
     create_type        |-> "MonolithicSparse",
     extent_descriptors |-> <<>>]

\* One line of the header section, lines 36-54: the first matching key decides.
HeaderLine(d, line) ==
    IF StartsWith(line, "version=") THEN
        LET version == FromStrRadix(TrimStartMatches(line, "version="), 10, 4)
        IN  IF IsErr(version) THEN version ELSE Ok([d EXCEPT !.version = version.val])
    ELSE IF StartsWith(line, "CID=") THEN
        LET cid == FromStrRadix(TrimStartMatches(line, "CID="), 16, 4)
        IN  IF IsErr(cid) THEN cid ELSE Ok([d EXCEPT !.cid = cid.val])
    ELSE IF StartsWith(line, "parentCID=") THEN
        LET c == FromStrRadix(TrimStartMatches(line, "parentCID="), 16, 4)
        IN  IF IsErr(c) THEN c
            ELSE Ok([d EXCEPT !.parent_cid = IF c.val = CID_NOPARENT THEN None ELSE Some(c.val)])
    ELSE IF StartsWith(line, "createType=") THEN
        LET disk_type == DiskTypeFromStr(TrimStartMatches(line, "createType="))
        IN  IF IsErr(disk_type) THEN disk_type ELSE Ok([d EXCEPT !.create_type = disk_type.val])
    ELSE Ok(d)

\* for line in chunk.split("\n") { ... }, from line i on
RECURSIVE HeaderLines(_, _, _)
HeaderLines(d, lines, i) ==
    IF i > Len(lines) THEN Ok(d)
    ELSE LET r == HeaderLine(d, lines[i])
         IN  IF IsErr(r) THEN r ELSE HeaderLines(r.val, lines, i + 1)

\* for line in chunk.split("\n").skip(1).filter(|x| x.len() != 0) { ... }
RECURSIVE ExtentLines(_, _, _)
ExtentLines(d, lines, i) ==
    IF i > Len(lines) THEN Ok(d)
    ELSE LET r == ExtentDescriptorFromStr(lines[i])
         IN  IF IsErr(r) THEN r
             ELSE ExtentLines([d EXCEPT !.extent_descriptors = Append(@, r.val)], lines, i + 1)

\* One chunk of the text, lines 34-67.
Chunk(d, chunk) ==
    IF StartsWith(chunk, "Disk DescriptorFile") THEN
        HeaderLines(d, Split(chunk, "\n"), 1)
    ELSE IF StartsWith(chunk, "Extent description") THEN
        ExtentLines(d, NonEmpty(Tail(Split(chunk, "\n"))), 1)
    ELSE IF StartsWith(chunk, "The disk Data Base") THEN
        Ok(d)
    ELSE Panic("Unsupported chunk in descriptor file: " \o chunk)

\* for chunk in text.split("# ").filter(|x| x.len() != 0) { ... }, from chunk i
RECURSIVE Chunks(_, _, _)
Chunks(d, chunks, i) ==
    IF i > Len(chunks) THEN Ok(d)
    ELSE LET r == Chunk(d, chunks[i])
         IN  IF ~IsOk(r) THEN r ELSE Chunks(r.val, chunks, i + 1)

\* Descriptor::new
DescriptorNew(text) == Chunks(DescriptorDefault, NonEmpty(Split(text, "# ")), 1)

-----------------------------------------------------------------------------
(* src/lib.rs: constants, byte decoding *)

EXTENT_MAGIC   == FromNat(1447904331, 4)    \* 0x564d444b, "VMDK"
EXTENT_VERSION == FromNat(1, 4)
SECTOR_SIZE    == 512

\* The offset Vmdk::new seeks to before it reads the descriptor.
DescriptorSeekOffset == 512

\* Io is std::io::Error (its kind in `why`), Utf8Error is core::str's,
\* TryFromIntError is core::num's; `?` wraps each unchanged.
Io(why)         == [kind |-> "Io", why |-> why]
Utf8Error       == [kind |-> "Utf8Error"]
TryFromIntError == [kind |-> "TryFromIntError"]

\* The process is ended by the allocator (handle_alloc_error): no unwinding,
\* nothing returned.
Abort(m) == [tag |-> "Abort", msg |-> m]

\* The fields ExtentHeader::new reads, in order, with their widths in bytes.
HeaderLayout ==
    << [name |-> "magic_number",    width |-> 4],
       [name |-> "version",         width |-> 4],
       [name |-> "flags",           width |-> 4],
       [name |-> "capacity",        width |-> 8],
       [name |-> "grain_size",      width |-> 8],
       [name |-> "desc_offset",     width |-> 8],
       [name |-> "desc_size",       width |-> 8],
       [name |-> "gtes_per_gt",     width |-> 4],
       [name |-> "rgd_offset",      width |-> 8],
       [name |-> "gd_offset",       width |-> 8],
       [name |-> "overhead",        width |-> 8],
       [name |-> "dirty_shutdown",  width |-> 1],
       [name |-> "single_eol_char", width |-> 1],
       [name |-> "non_eol_char",    width |-> 1],
       [name |-> "dbl_eol_char",    width |-> 1],
       [name |-> "compress_method", width |-> 2] >>

\* let ext = ExtentHeader { ... }: the locals, by name.
ExtentHeaderOf(fs) ==
    [magic_number    |-> fs[1],  version         |-> fs[2],  flags        |-> fs[3],
     capacity        |-> fs[4],  grain_size      |-> fs[5],  desc_offset  |-> fs[6],
     desc_size       |-> fs[7],  gtes_per_gt     |-> fs[8],  rgd_offset   |-> fs[9],
     gd_offset       |-> fs[10], overhead        |-> fs[11], dirty_shutdown |-> fs[12],
     single_eol_char |-> fs[13], non_eol_char    |-> fs[14], dbl_eol_char |-> fs[15],
     compress_method |-> fs[16]]

\* The signature compared as if the field had been read big-endian.
MagicAccepted_BigEndian(magic) == [i \in 1..4 |-> magic[5 - i]] = EXTENT_MAGIC

\* if magic != EXTENT_MAGIC { return Err(..) }, and the same for the version
MagicAccepted(magic)     == magic = EXTENT_MAGIC
VersionAccepted(version) == version = EXTENT_VERSION

\* reader.read_uN::<LittleEndian>() at cursor p of bytes bs: the next w bytes,
\* which are the value's digits as the model writes it; None when fewer than w
\* bytes are left (read_exact's UnexpectedEof).
ReadLE(bs, p, w) ==
    IF p + w > Len(bs) THEN None ELSE Some(SubSeq(bs, p + 1, p + w))

\* Whether a value is below 2^24, and then the value.
IsSmall(n) == \A i \in 4..Len(n) : n[i] = 0
ToNat(n)   == n[1] + 256 * n[2] + 65536 * n[3]

\* extent_header.desc_size.0 * SECTOR_SIZE in u64: the digits of the product
\* modulo 2^64, and whether the product left the u64 range.
DescSizeInBytes(desc_size) ==
    LET m == MulAddDigits(desc_size, SECTOR_SIZE, 0)
    IN  [wrapped |-> SubSeq(m, 1, 8), overflow |-> m[9] # 0]

\* u64 -> usize by try_into(), for a usize of w bytes.
TryIntoUsize(n, w) ==
    IF \E i \in (w + 1)..8 : n[i] # 0 THEN None ELSE Some(SubSeq(n, 1, w))

\* Whether a usize exceeds isize::MAX, which no Vec capacity may.
ExceedsIsizeMax(n) == n[Len(n)] >= 128

\* str::from_utf8's test: every byte starts a well-formed sequence, with the
\* continuation bytes it needs after it, or continues the sequence of a lead
\* byte at most three places before it.
IsCont(b) == b >= 128 /\ b <= 191
SeqLen(b) ==
    IF b <= 127 THEN 1
    ELSE IF b >= 194 /\ b <= 223 THEN 2
    ELSE IF b >= 224 /\ b <= 239 THEN 3
    ELSE IF b >= 240 /\ b <= 244 THEN 4
    ELSE 0
SecondOk(lead, b) ==
    CASE lead = 224 -> b >= 160 /\ b <= 191
      [] lead = 237 -> b >= 128 /\ b <= 159
      [] lead = 240 -> b >= 144 /\ b <= 191
      [] lead = 244 -> b >= 128 /\ b <= 143
      [] OTHER      -> IsCont(b)
ValidUtf8(bs) ==
    \A i \in 1..Len(bs) :
        IF IsCont(bs[i])
        THEN \E j \in 1..3 : i - j >= 1 /\ SeqLen(bs[i - j]) > j
        ELSE /\ SeqLen(bs[i]) >= 1
             /\ i + SeqLen(bs[i]) - 1 <= Len(bs)
             /\ \A k \in 1..(SeqLen(bs[i]) - 1) :
                    IF k = 1 THEN SecondOk(bs[i], bs[i + 1]) ELSE IsCont(bs[i + k])

\* str::trim_matches(char::from(0)) on the bytes of the str: the NUL bytes at
\* either end removed.
TrimNul(bs) ==
    IF \A i \in 1..Len(bs) : bs[i] = 0 THEN <<>>
    ELSE LET first == CHOOSE i \in 1..Len(bs) : bs[i] # 0 /\ \A j \in 1..(i - 1) : bs[j] = 0
             last  == CHOOSE i \in 1..Len(bs) : bs[i] # 0 /\ \A j \in (i + 1)..Len(bs) : bs[j] = 0
         IN  SubSeq(bs, first, last)

\* The characters the model's files hold and their bytes: ASCII 32..126 but
\* the grave accent (which a TLA+ string cannot hold), and \t \n \r.  U+0000,
\* which a TLA+ string cannot hold either, is written \f; no file of the model
\* holds a form feed.
AsciiLow  == " !\"#$%&'()*+,-./0123456789:;<=>?@ABCDEFGHIJKLMNOPQRSTUVWXYZ[\\]^_"
AsciiHigh == "abcdefghijklmnopqrstuvwxyz{|}~"
NulChar   == "\f"

Ord(c) ==
    CASE c = NulChar -> 0
      [] c = "\t"    -> 9
      [] c = "\n"    -> 10
      [] c = "\r"    -> 13
      [] \E i \in 1..Len(AsciiLow) : CharAt(AsciiLow, i) = c ->
             31 + CHOOSE i \in 1..Len(AsciiLow) : CharAt(AsciiLow, i) = c
      [] \E i \in 1..Len(AsciiHigh) : CharAt(AsciiHigh, i) = c ->
             96 + CHOOSE i \in 1..Len(AsciiHigh) : CharAt(AsciiHigh, i) = c

Chr(b) ==
    CASE b = 0  -> NulChar
      [] b = 9  -> "\t"
      [] b = 10 -> "\n"
      [] b = 13 -> "\r"
      [] b >= 32 /\ b <= 95  -> CharAt(AsciiLow, b - 31)
      [] b >= 97 /\ b <= 126 -> CharAt(AsciiHigh, b - 96)

\* The bytes of a str, and the str of bytes that are valid UTF-8.
RECURSIVE Encode(_)
Encode(s) ==
    IF Len(s) = 0 THEN <<>>
    ELSE IF Len(s) = 1 THEN <<Ord(s)>>
    ELSE LET h == Len(s) \div 2
         IN  Encode(SubSeq(s, 1, h)) \o Encode(SubSeq(s, h + 1, Len(s)))

RECURSIVE Decode(_)
Decode(bs) ==
    IF Len(bs) = 0 THEN ""
    ELSE IF Len(bs) = 1 THEN Chr(bs[1])
    ELSE LET h == Len(bs) \div 2
         IN  Decode(SubSeq(bs, 1, h)) \o Decode(SubSeq(bs, h + 1, Len(bs)))

\* Ok(Vmdk { extent_header: Some(..), descriptor: Some(..), file })
VmdkOf(h, descriptor) == [extent_header |-> Some(h), descriptor |-> Some(descriptor)]

-----------------------------------------------------------------------------
(* Inputs of the parser specification.  gen says how a text is put together, *)
(* Text(gen) is the text; the parser sees only the text.                     *)

MaxExtentLines == 2     \* extent lines in one extent-description section
MaxDdbLines    == 2     \* lines in one disk-database section

AllOnes == [i \in 1..8 |-> 15]          \* the hex digits of 0xffffffff

\* The 32-bit values tried for CID fields, as 8 hex digits, most significant
\* first: one digit repeated, and 0xffffffff with one digit changed.
NibbleSample == {0, 1, 7, 10, 14, 15}
HexValues ==
    {[i \in 1..8 |-> d] : d \in NibbleSample}
        \cup {[AllOnes EXCEPT ![p] = d] : p \in 1..8, d \in {0, 7, 14}}

\* The u32 a sequence of 8 hex digits denotes.
NibblesToU32(v) == [i \in 1..4 |-> v[9 - 2 * i] * 16 + v[10 - 2 * i]]

RECURSIVE StripZeros(_)
StripZeros(s) ==
    IF Len(s) > 1 /\ CharAt(s, 1) = "0" THEN StripZeros(SubSeq(s, 2, Len(s))) ELSE s

RECURSIVE HexString(_, _)
HexString(v, upper) ==
    IF v = <<>> THEN ""
    ELSE CharAt(IF upper THEN DigitsUpper ELSE Digits, Head(v) + 1) \o HexString(Tail(v), upper)

\* A value written as a descriptor file writes it.
FormatHex(p) ==
    (IF p.plus THEN "+" ELSE "")
        \o (IF p.strip THEN StripZeros(HexString(p.v, p.upper)) ELSE HexString(p.v, p.upper))

HexFields ==
    [kind : {"hex"}, v : HexValues, upper : BOOLEAN, strip : BOOLEAN, plus : BOOLEAN,
     raw : {""}]
RawFields ==
    [kind : {"raw"}, v : {AllOnes}, upper : {FALSE}, strip : {FALSE}, plus : {FALSE},
     raw : {"", "0xffffffff", "ffffffff ", "-1", "fffffffff", "100000000", "ffff ffff", "g"}]
FieldText(p) == IF p.kind = "hex" THEN FormatHex(p) ELSE p.raw

\* The other case of a letter; any other character unchanged.
FlipCase(c) ==
    LET lo == {i \in 11..36 : CharAt(Digits, i) = c}
        up == {i \in 11..36 : CharAt(DigitsUpper, i) = c}
    IN  IF lo # {} THEN CharAt(DigitsUpper, CHOOSE i \in lo : TRUE)
        ELSE IF up # {} THEN CharAt(Digits, CHOOSE i \in up : TRUE)
        ELSE c

RECURSIVE MapCase(_, _)
MapCase(s, upper) ==
    IF Len(s) = 0 THEN ""
    ELSE LET c == CharAt(s, 1)
             isLo == \E i \in 11..36 : CharAt(Digits, i) = c
             isUp == \E i \in 11..36 : CharAt(DigitsUpper, i) = c
         IN  (IF (upper /\ isLo) \/ (~upper /\ isUp) THEN FlipCase(c) ELSE c)
                 \o MapCase(SubSeq(s, 2, Len(s)), upper)

\* Tags near an allow-listed tag: it, its proper prefixes and suffixes, it with
\* one letter in the other case, in one case throughout, padded, doubled, and
\* with its quotes added or removed.
TagVariants(tag) ==
    {[how |-> "exact", s |-> tag]}
        \cup {[how |-> "prefix", s |-> SubSeq(tag, 1, k)] : k \in 0..(Len(tag) - 1)}
        \cup {[how |-> "suffix", s |-> SubSeq(tag, k, Len(tag))] : k \in 2..Len(tag)}
        \cup {[how |-> "flip", s |-> SubSeq(tag, 1, i - 1) \o FlipCase(CharAt(tag, i))
                                       \o SubSeq(tag, i + 1, Len(tag))] :
                 i \in {j \in 1..Len(tag) : FlipCase(CharAt(tag, j)) # CharAt(tag, j)}}
        \cup {[how |-> "case", s |-> MapCase(tag, u)] : u \in {b \in BOOLEAN : MapCase(tag, b) # tag}}
        \cup {[how |-> "pad", s |-> x] : x \in {" " \o tag, tag \o " ", tag \o "\t", tag \o tag}}
        \cup {[how |-> "quote", s |-> x] :
                 x \in IF CharAt(tag, 1) = "\"" THEN {SubSeq(tag, 2, Len(tag) - 1)}
                       ELSE {"\"" \o tag \o "\""}}

\* The tags the format defines and the crate's enumerations list as variants.
ExtentTags ==
    TagVariants("SPARSE")
        \cup {[how |-> "other", s |-> x] :
                 x \in {"FLAT", "ZERO", "VMFS", "VMFSSPARSE", "VMFSRDM", "VMFSRAW"}}
DiskTags ==
    TagVariants("\"monolithicSparse\"")
        \cup {[how |-> "other", s |-> x] :
                 x \in {"\"vmfsSparse\"", "\"monolithicFlat\"", "\"vmfs\"",
                        "\"twoGbMaxExtentSparse\"", "\"twoGbMaxExtentFlat\"",
                        "\"fullDevice\"", "\"vmfsRaw\"", "\"partitionedDevice\"",
                        "\"vmfsRawDeviceMap\"", "\"vmfsPassthroughRawDeviceMap\"",
                        "\"streamOptimized\""}}

BoundedSeq(S, n) == UNION {[1..k -> S] : k \in 0..n}

RECURSIVE Concat(_)
Concat(ss) == IF ss = <<>> THEN "" ELSE Head(ss) \o Concat(Tail(ss))

\* One line of an extent-description section: the first ntok of its four
\* fields, sep between them, trail after them.
RECURSIVE Joined(_, _)
Joined(parts, sep) ==
    IF parts = <<>> THEN ""
    ELSE IF Len(parts) = 1 THEN parts[1]
    ELSE Head(parts) \o sep \o Joined(Tail(parts), sep)

LineText(l) ==
    Joined(SubSeq(<<l.perms, l.sectors, l.type, l.path>>, 1, l.ntok), l.sep) \o l.trail

FixturePath == "\"OMS CS6250 Course VM-disk1.vmdk\""    \* the tests' extent path
FixtureLine ==
    [ntok |-> 4, perms |-> "RW", sectors |-> "41943040", type |-> "SPARSE",
     path |-> FixturePath, sep |-> " ", trail |-> ""]
PlainLine == [FixtureLine EXCEPT !.path = "\"disk1.vmdk\""]

\* Lines of the four fields, single spaces between them.
WellFormedLines ==
    {[PlainLine EXCEPT !.sectors = n, !.path = q] :
        n \in {"41943040", "0"},
        q \in {"\"disk1.vmdk\"", "\"disk2.vmdk\"", FixturePath}}

\* Non-empty lines of fewer than four fields (no field holds white space).
ShortLines ==
    {l \in {[PlainLine EXCEPT !.ntok = k, !.sep = sp, !.trail = t] :
                k \in 0..3, sp \in {" ", "  ", "\t"}, t \in {"", " ", "  ", "\t"}} :
        Len(LineText(l)) # 0}

\* Lines whose third field is a tag near SPARSE, or another tag of the format.
TaggedLines == {[PlainLine EXCEPT !.type = t.s] : t \in ExtentTags}

DdbLines ==
    {"ddb.virtualHWVersion = \"4\"", "ddb.adapterType=\"ide\"", "ddb.comment=\"\"",
     "ddb.comment=\"disk # 1\"", "ddb.comment=\"# Extent description\"", "CID=0"}

UnknownLabels ==
    {"Unknown section", "DDB", "disk descriptorfile", "Extent Description",
     "the disk Data Base", "Change Tracking File"}

\* The text of the crate's tests, as gen: every family below changes one part.
FixtureGen ==
    [parent     |-> [kind |-> "hex", v |-> AllOnes, upper |-> FALSE, strip |-> FALSE,
                     plus |-> FALSE, raw |-> ""],
     createType |-> [how |-> "exact", s |-> "\"monolithicSparse\""],
     lines      |-> <<FixtureLine>>,
     ddb        |-> [present |-> TRUE, at |-> 2,
                     lines |-> <<"ddb.virtualHWVersion = \"4\"", "ddb.adapterType=\"ide\"">>],
     unknown    |-> [present |-> FALSE, at |-> 0, label |-> ""],
     junk       |-> ""]

DescriptorGens ==
    {[FixtureGen EXCEPT !.parent = p] : p \in HexFields \cup RawFields}
        \cup {[FixtureGen EXCEPT !.createType = t] : t \in DiskTags}
        \cup {[FixtureGen EXCEPT !.lines = ls] : ls \in BoundedSeq(WellFormedLines, MaxExtentLines)}
        \cup {[FixtureGen EXCEPT !.lines = pre \o <<l>>] :
                 pre \in {<<>>, <<PlainLine>>}, l \in ShortLines \cup TaggedLines}
        \cup {[FixtureGen EXCEPT !.ddb = [present |-> TRUE, at |-> k, lines |-> ls]] :
                 k \in 0..2, ls \in BoundedSeq(DdbLines, MaxDdbLines)}
        \cup {[FixtureGen EXCEPT !.ddb = [present |-> FALSE, at |-> 2, lines |-> <<>>]]}
        \cup {[FixtureGen EXCEPT !.unknown = [present |-> TRUE, at |-> k, label |-> u]] :
                 k \in 0..3, u \in UnknownLabels}
        \cup {[FixtureGen EXCEPT !.junk = j] : j \in {"\n", "#DDB\n"}}

HeaderSection(g) ==
    "# Disk DescriptorFile\nversion=1\nCID=def0d352\nparentCID=" \o FieldText(g.parent)
        \o "\ncreateType=" \o g.createType.s \o "\n\n"

ExtentSection(g) ==
    "# Extent description\n"
        \o Concat([i \in 1..Len(g.lines) |-> LineText(g.lines[i]) \o "\n"]) \o "\n"

DdbSection(g, k) ==
    IF g.ddb.present /\ g.ddb.at = k
    THEN "# The disk Data Base \n#DDB\n\n"
             \o Concat([i \in 1..Len(g.ddb.lines) |-> g.ddb.lines[i] \o "\n"])
    ELSE ""

UnknownSection(g, k) ==
    IF g.unknown.present /\ g.unknown.at = k
    THEN "# " \o g.unknown.label \o "\nkey=\"value\"\n\n"
    ELSE ""

\* The descriptor text gen describes: the sections in the order header, extent
\* description, disk database, with the disk database and an unknown section
\* at the places gen gives them.
Text(g) ==
    g.junk \o UnknownSection(g, 0) \o DdbSection(g, 0)
        \o HeaderSection(g) \o UnknownSection(g, 1) \o DdbSection(g, 1)
        \o ExtentSection(g) \o UnknownSection(g, 2) \o DdbSection(g, 2)
        \o UnknownSection(g, 3)

-----------------------------------------------------------------------------
(* The parser specification: one call of one public function of            *)
(* src/descriptor.rs on one input.                                         *)

NotCalled == [tag |-> "NotCalled"]
Returned  == ret # NotCalled

parseVars == <<call, arg, gen, ret>>
vmdkVars  == <<vgen, build, file, pc, pos, fields, header, size, buf, vret>>
vars      == <<parseVars, vmdkVars>>

\* No Vmdk::new is under way.
VmdkIdle ==
    /\ vgen = <<>> /\ build = <<>> /\ file = <<>> /\ pc = "idle" /\ pos = 0
    /\ fields = <<>> /\ header = None /\ size = None /\ buf = <<>> /\ vret = NotCalled

InitParse ==
    /\ VmdkIdle
    /\ ret = NotCalled
    /\ \/ /\ call = "Descriptor::new"
          /\ gen \in DescriptorGens
          /\ arg = Text(gen)
       \/ /\ call = "ExtentDescriptor::from_str"
          /\ gen \in WellFormedLines \cup ShortLines \cup TaggedLines
          /\ arg = LineText(gen)
       \/ /\ call = "ExtentType::from_str"
          /\ gen \in ExtentTags
          /\ arg = gen.s
       \/ /\ call = "DiskType::from_str"
          /\ gen \in DiskTags
          /\ arg = gen.s

CallDescriptorNew ==
    /\ call = "Descriptor::new" /\ ~Returned
    /\ ret' = DescriptorNew(arg)
    /\ UNCHANGED <<call, arg, gen, vmdkVars>>

CallExtentDescriptorFromStr ==
    /\ call = "ExtentDescriptor::from_str" /\ ~Returned
    /\ ret' = ExtentDescriptorFromStr(arg)
    /\ UNCHANGED <<call, arg, gen, vmdkVars>>

CallExtentTypeFromStr ==
    /\ call = "ExtentType::from_str" /\ ~Returned
    /\ ret' = ExtentTypeFromStr(arg)
    /\ UNCHANGED <<call, arg, gen, vmdkVars>>

CallDiskTypeFromStr ==
    /\ call = "DiskType::from_str" /\ ~Returned
    /\ ret' = DiskTypeFromStr(arg)
    /\ UNCHANGED <<call, arg, gen, vmdkVars>>

NextParse ==
    \/ CallDescriptorNew
    \/ CallExtentDescriptorFromStr
    \/ CallExtentTypeFromStr
    \/ CallDiskTypeFromStr

SpecParse == InitParse /\ [][NextParse]_vars

-----------------------------------------------------------------------------
(* Inputs of the container specification.  vgen says how a file is put     *)
(* together, FileBytes(vgen) is the file; Vmdk::new sees only the file.    *)

MaxSectors == 2     \* descriptor regions in one file after the header sector

SignatureBytes == <<75, 68, 77, 86>>    \* "KDMV", the signature as a file holds it

RECURSIVE ConcatBytes(_)
ConcatBytes(ss) == IF ss = <<>> THEN <<>> ELSE Head(ss) \o ConcatBytes(Tail(ss))

Zeros(n) == [i \in 1..n |-> 0]

\* bs, NUL-padded to the next multiple of 512 bytes.
PadToSector(bs) == bs \o Zeros((512 - (Len(bs) % 512)) % 512)

\* The text of the crate's tests, in full.
TestDescriptor ==
    "# Disk DescriptorFile\nversion=1\nCID=def0d352\nparentCID=ffffffff\n"
        \o "createType=\"monolithicSparse\"\n\n"
        \o "# Extent description\nRW 41943040 SPARSE \"OMS CS6250 Course VM-disk1.vmdk\"\n\n"
        \o "# The disk Data Base \n#DDB\n\n"
        \o "ddb.virtualHWVersion = \"4\"\nddb.adapterType=\"ide\"\n"
        \o "ddb.geometry.cylinders=\"16383\"\nddb.geometry.heads=\"16\"\n"
        \o "ddb.geometry.sectors=\"63\"\nddb.geometry.biosCylinders=\"1024\"\n"
        \o "ddb.geometry.biosHeads=\"255\"\nddb.geometry.biosSectors=\"63\"\n"
        \o "ddb.uuid.image=\"2ebfd8e9-9868-4688-8f3f-97e3f9def370\"\n"
        \o "ddb.uuid.parent=\"00000000-0000-0000-0000-000000000000\"\n"
        \o "ddb.uuid.modification=\"e2b662bc-16ff-478e-8b7f-3323b027087e\"\n"
        \o "ddb.uuid.parentmodification=\"00000000-0000-0000-0000-000000000000\"\n"
        \o "ddb.comment=\"\"\n"

\* A short descriptor the parser accepts, one it rejects (a createType outside
\* the allow-list), and grain data, which is no text at all.
AcceptedDescriptor ==
    "# Disk DescriptorFile\nversion=1\nCID=def0d352\nparentCID=ffffffff\n"
        \o "createType=\"monolithicSparse\"\n\n"
        \o "# Extent description\nRW 41943040 SPARSE \"disk1.vmdk\"\n"
RejectedDescriptor ==
    "# Disk DescriptorFile\nversion=1\nCID=0badcafe\nparentCID=def0d352\n"
        \o "createType=\"streamOptimized\"\n\n"
        \o "# Extent description\nRW 41943040 SPARSE \"disk1.vmdk\"\n"

RegionBytes ==
    [valid    |-> PadToSector(Encode(AcceptedDescriptor)),
     rejected |-> PadToSector(Encode(RejectedDescriptor)),
     binary   |-> PadToSector(<<255, 254, 0, 1, 128, 7>>),
     fixture  |-> PadToSector(Encode(TestDescriptor))]

DefaultBuild == [overflow_checks |-> TRUE, usize_bytes |-> 8]
Builds       == [overflow_checks : BOOLEAN, usize_bytes : {4, 8}]

\* Sector counts whose product with 512 leaves the u64 range, or the usize
\* range of a 32-bit build, or isize::MAX: 2^23, 2^54, 2^55, 2^55 + 1,
\* 2^55 + 2, 2^64 - 1.
BigSizes ==
    { <<0, 0, 128, 0, 0, 0, 0, 0>>, <<0, 0, 0, 0, 0, 0, 64, 0>>,
      <<0, 0, 0, 0, 0, 0, 128, 0>>, <<1, 0, 0, 0, 0, 0, 128, 0>>,
      <<2, 0, 0, 0, 0, 0, 128, 0>>, [i \in 1..8 |-> 255] }

DefaultVGen ==
    [exists      |-> TRUE,
     magic       |-> SignatureBytes,
     version     |-> <<1, 0, 0, 0>>,
     desc_offset |-> FromNat(1, 8),
     desc_size   |-> FromNat(1, 8),
     regions     |-> <<"valid">>,
     cut         |-> -1,
     build       |-> DefaultBuild]

VGens ==
    {[DefaultVGen EXCEPT !.magic = m] :
        m \in {SignatureBytes, <<86, 77, 68, 75>>, <<0, 0, 0, 0>>, <<67, 79, 87, 68>>}
                 \cup {[SignatureBytes EXCEPT ![i] = @ + 1] : i \in 1..4}}
        \cup {[DefaultVGen EXCEPT !.version = FromNat(v, 4)] : v \in {0, 1, 2, 3, 256, 16777216}}
        \cup {[DefaultVGen EXCEPT !.cut = c] :
                 c \in {0, 1, 3, 4, 5, 7, 8, 11, 12, 44, 77, 78, 512, 513}}
        \cup {[DefaultVGen EXCEPT !.magic = <<86, 77, 68, 75>>, !.cut = c] : c \in {4, 5, 78}}
        \cup {[DefaultVGen EXCEPT !.exists = FALSE]}
        \cup {[DefaultVGen EXCEPT !.desc_offset = FromNat(o, 8), !.desc_size = FromNat(n, 8),
                                  !.regions = rs] :
                 o \in 0..(MaxSectors + 1), n \in 0..(MaxSectors + 1),
                 rs \in BoundedSeq({"valid", "rejected", "binary"}, MaxSectors)}
        \cup {[DefaultVGen EXCEPT !.regions = <<"fixture">>, !.desc_size = FromNat(n, 8)] :
                 n \in 1..3}
        \cup {[DefaultVGen EXCEPT !.desc_offset = o, !.desc_size = n, !.build = b,
                                  !.regions = <<"valid", "rejected">>] :
                 o \in {FromNat(1, 8), <<0, 0, 0, 0, 0, 0, 128, 0>>}, n \in BigSizes,
                 b \in Builds}

\* The 78 bytes ExtentHeader::new reads, NUL-padded to the header's sector.
HeaderSector(g) ==
    PadToSector(g.magic \o g.version \o FromNat(3, 4) \o FromNat(41943040, 8)
                    \o FromNat(128, 8) \o g.desc_offset \o g.desc_size \o FromNat(512, 4)
                    \o FromNat(21, 8) \o FromNat(2602, 8) \o FromNat(5248, 8)
                    \o <<0, 10, 32, 13>> \o FromNat(0, 2))

FileBytes(g) ==
    LET all == HeaderSector(g)
                   \o ConcatBytes([i \in 1..Len(g.regions) |-> RegionBytes[g.regions[i]]])
    IN  IF g.cut < 0 THEN all ELSE SubSeq(all, 1, g.cut)

-----------------------------------------------------------------------------
(* The container specification: one call of Vmdk::new, statement by         *)
(* statement; ExtentHeader::new is the statements "magic" to "fields".      *)

ParseIdle == call = "idle" /\ arg = "" /\ gen = <<>> /\ ret = NotCalled

Init ==
    /\ ParseIdle
    /\ vgen \in VGens
    /\ build = vgen.build
    /\ file = [exists |-> vgen.exists, bytes |-> FileBytes(vgen)]
    /\ pc = "open"
    /\ pos = 0
    /\ fields = <<>>
    /\ header = None
    /\ size = None
    /\ buf = <<>>
    /\ vret = NotCalled

\* Vmdk::new returns r.
Return(r) == pc' = "done" /\ vret' = r

\* let mut file = File::open(path)?; file.seek(SeekFrom::Start(0))?;
Open ==
    /\ pc = "open"
    /\ IF file.exists
       THEN pc' = "magic" /\ pos' = 0 /\ UNCHANGED vret
       ELSE Return(Err(Io("NotFound"))) /\ UNCHANGED pos
    /\ UNCHANGED <<parseVars, vgen, build, file, fields, header, size, buf>>

\* The test ExtentHeader::new makes of a value it has read: two fields have one.
FieldAccepted(check, v) ==
    CASE check = "magic"   -> MagicAccepted(v)
      [] check = "version" -> VersionAccepted(v)
      [] OTHER             -> TRUE

\* One read of ExtentHeader::new: the bytes of the next field of the layout,
\* or the UnexpectedEof that read_exact gives with the file read to its end.
ReadNext(check, next) ==
    LET f == HeaderLayout[Len(fields) + 1]
        r == ReadLE(file.bytes, pos, f.width)
    IN  IF ~r.some
        THEN Return(Err(Io("UnexpectedEof"))) /\ pos' = Len(file.bytes)
                 /\ UNCHANGED <<fields, header>>
        ELSE /\ pos' = pos + f.width
             /\ fields' = Append(fields, r.v)
             /\ IF ~FieldAccepted(check, r.v)
                THEN Return(Err(ParseError)) /\ UNCHANGED header
                ELSE IF Len(fields) + 1 = Len(HeaderLayout)
                THEN /\ header' = Some(ExtentHeaderOf(fields'))
                     /\ pc' = "seek" /\ UNCHANGED vret
                ELSE pc' = next /\ UNCHANGED <<vret, header>>

\* let magic = reader.read_u32::<LittleEndian>()?; if magic != EXTENT_MAGIC ..
ReadMagic ==
    /\ pc = "magic"
    /\ ReadNext("magic", "version")
    /\ UNCHANGED <<parseVars, vgen, build, file, size, buf>>

\* let version = reader.read_u32::<LittleEndian>()?; if version != EXTENT_VERSION ..
ReadVersion ==
    /\ pc = "version"
    /\ ReadNext("version", "fields")
    /\ UNCHANGED <<parseVars, vgen, build, file, size, buf>>

\* flags to compress_method, one read each; after the last, Ok(ext).
ReadField ==
    /\ pc = "fields"
    /\ ReadNext("none", "fields")
    /\ UNCHANGED <<parseVars, vgen, build, file, size, buf>>

\* file.seek(SeekFrom::Start(512))?;
SeekDescriptor ==
    /\ pc = "seek"
    /\ pos' = DescriptorSeekOffset
    /\ pc' = "size"
    /\ UNCHANGED <<parseVars, vgen, build, file, fields, header, size, buf, vret>>

\* let desc_size_in_bytes = extent_header.desc_size.0 * SECTOR_SIZE; and the
\* desc_size_in_bytes.try_into()? of the next line.  A product that leaves the
\* u64 range panics in a build with overflow checks and wraps in one without.
ComputeSize ==
    /\ pc = "size"
    /\ LET m == DescSizeInBytes(header.v.desc_size)
           n == TryIntoUsize(m.wrapped, build.usize_bytes)
       IN  IF m.overflow /\ build.overflow_checks
           THEN Return(Panic("attempt to multiply with overflow")) /\ UNCHANGED size
           ELSE IF ~n.some
           THEN Return(Err(TryFromIntError)) /\ UNCHANGED size
           ELSE size' = n /\ pc' = "alloc" /\ UNCHANGED vret
    /\ UNCHANGED <<parseVars, vgen, build, file, pos, fields, header, buf>>

\* Whether the file has n bytes from the cursor on.
CanRead(n) == IsSmall(n) /\ pos + ToNat(n) <= Len(file.bytes)

\* let mut buf: Vec<u8> = vec![0u8; ..];  A capacity above isize::MAX panics.
\* Memory for a buffer that the file can fill is taken to be there; the
\* allocator may refuse a larger one, which ends the process.
Allocate ==
    /\ pc = "alloc"
    /\ IF ExceedsIsizeMax(size.v)
       THEN Return(Panic("capacity overflow"))
       ELSE \/ pc' = "read" /\ UNCHANGED vret
            \/ ~CanRead(size.v) /\ Return(Abort("memory allocation failed"))
    /\ UNCHANGED <<parseVars, vgen, build, file, pos, fields, header, size, buf>>

\* file.read_exact(&mut buf)?;
ReadExact ==
    /\ pc = "read"
    /\ IF CanRead(size.v)
       THEN /\ buf' = SubSeq(file.bytes, pos + 1, pos + ToNat(size.v))
            /\ pos' = pos + ToNat(size.v)
            /\ pc' = "decode" /\ UNCHANGED vret
       ELSE /\ Return(Err(Io("UnexpectedEof")))
            /\ pos' = IF pos > Len(file.bytes) THEN pos ELSE Len(file.bytes)
            /\ UNCHANGED buf
    /\ UNCHANGED <<parseVars, vgen, build, file, fields, header, size>>

\* let descriptor = std::str::from_utf8(&buf)?.to_owned();
\* let descriptor = descriptor.trim_matches(char::from(0)).to_owned();
\* Ok(Vmdk { .. })
DecodeDescriptor ==
    /\ pc = "decode"
    /\ IF ~ValidUtf8(buf)
       THEN Return(Err(Utf8Error))
       ELSE Return(Ok(VmdkOf(header.v, Decode(TrimNul(buf)))))
    /\ UNCHANGED <<parseVars, vgen, build, file, pos, fields, header, size, buf>>

Next ==
    \/ Open
    \/ ReadMagic
    \/ ReadVersion
    \/ ReadField
    \/ SeekDescriptor
    \/ ComputeSize
    \/ Allocate
    \/ ReadExact
    \/ DecodeDescriptor

Spec == Init /\ [][Next]_vars

-----------------------------------------------------------------------------
(* Claims about src/descriptor.rs, checked under SpecParse *)

NewReturned == call = "Descriptor::new" /\ Returned

\* Whether the error value e has a field f holding x.
ErrCarries(e, f, x) == f \in DOMAIN e /\ e[f] = x

\* C1 (as claimed): a descriptor text with a section whose label is none of the
\* three known labels makes Descriptor::new return an UnknownSection error value
\* that names the label; the call never ends in a panic.
C1_UnknownSectionReturned ==
    (NewReturned /\ gen.unknown.present) =>
        /\ ~IsPanic(ret)
        /\ IsErr(ret)
        /\ ErrCarries(ret.err, "label", gen.unknown.label)

\* C4: when the header section's parentCID line holds the 32-bit value v in
\* hexadecimal, the Descriptor that Descriptor::new returns has parent_cid = None
\* if v = 0xffffffff and parent_cid = Some(v) otherwise; and with the rest of
\* the text as in the tests' fixture a Descriptor is returned.
C4_ParentCidNoneIffAllOnes ==
    (NewReturned /\ gen.parent.kind = "hex") =>
        /\ (gen = [FixtureGen EXCEPT !.parent = gen.parent]) => IsOk(ret)
        /\ IsOk(ret) =>
              ret.val.parent_cid =
                  IF gen.parent.v = AllOnes THEN None ELSE Some(NibblesToU32(gen.parent.v))

\* C4's case: 0x7fffffff written in upper case with a plus sign comes back as
\* Some(0x7fffffff).
C4_Witness ==
    /\ NewReturned /\ IsOk(ret)
    /\ gen.parent.kind = "hex" /\ gen.parent.upper /\ gen.parent.plus
    /\ gen.parent.v = [AllOnes EXCEPT ![1] = 7]
    /\ arg = Text(gen)
    /\ ret.val.parent_cid = Some(<<255, 255, 255, 127>>)

\* C5 (as claimed): a non-empty extent-description line of fewer than 4
\* white-space-separated tokens makes the parse fail, be it given to
\* ExtentDescriptor::from_str or met by Descriptor::new in the section.
C5_ShortLineFails ==
    /\ (call = "ExtentDescriptor::from_str" /\ Returned /\ gen.ntok < 4) => IsErr(ret)
    /\ (NewReturned /\ \E i \in 1..Len(gen.lines) : gen.lines[i].ntok < 4) => IsErr(ret)

\* C7 (as claimed): a disk-database section never makes Descriptor::new fail as
\* on an unknown section, and what Descriptor::new returns is what it returns
\* for the same text without that section.
C7_DdbSectionSkipped ==
    (NewReturned /\ gen.ddb.present) =>
        /\ ~IsPanic(ret)
        /\ ret = DescriptorNew(Text([gen EXCEPT !.ddb.present = FALSE]))

C10_ExtentsInOrderWithPaths ==
    (/\ NewReturned
     /\ gen = [FixtureGen EXCEPT !.lines = gen.lines]
     /\ \A i \in 1..Len(gen.lines) : gen.lines[i] \in WellFormedLines) =>
        /\ IsOk(ret)
        /\ Len(ret.val.extent_descriptors) = Len(gen.lines)
        /\ \A i \in 1..Len(gen.lines) :
              ret.val.extent_descriptors[i] =
                  [extent_type |-> "Sparse", path |-> gen.lines[i].path]

-----------------------------------------------------------------------------
(* Claims about src/lib.rs, checked under Spec *)

Done   == pc = "done"
Opened == Done /\ IsOk(vret)

\* The bytes of sectors [off, off + n) of the file, when the file has them.
SectorRange(off, n) ==
    SubSeq(file.bytes, ToNat(off) * 512 + 1, (ToNat(off) + ToNat(n)) * 512)
HasSectors(off, n) ==
    /\ IsSmall(off) /\ IsSmall(n)
    /\ ToNat(off) <= Len(file.bytes) /\ ToNat(n) <= Len(file.bytes)
    /\ (ToNat(off) + ToNat(n)) * 512 <= Len(file.bytes)

\* C2 (as claimed): for a decoded header whose descriptor range lies in the
\* file, the extraction succeeds and the bytes extracted, read from byte
\* desc_offset * 512 on, are the file's bytes
\* [desc_offset * 512, (desc_offset + desc_size) * 512), whatever desc_offset is.
C2_ReadsDescOffsetRange ==
    (Done /\ header.some /\ HasSectors(header.v.desc_offset, header.v.desc_size)) =>
        /\ IsOk(vret)
        /\ buf = SectorRange(header.v.desc_offset, header.v.desc_size)

\* C3 (as claimed): Vmdk::new returns a view only when the descriptor parse
\* succeeded too: a file whose embedded descriptor text Descriptor::new rejects
\* is not opened successfully.
C3_OpenedOnlyIfDescriptorParses ==
    Opened => IsOk(DescriptorNew(vret.val.descriptor.v))

\* C6: when the stream's first 4 bytes are not the signature "KDMV",
\* ExtentHeader::new fails with the crate's ParseError (its value for a format
\* mismatch) having consumed exactly those 4 bytes and read no other field; and
\* an ExtentHeader that is built has the signature as its magic_number.
C6_BadMagicFailsAfterFourBytes ==
    /\ (/\ pc \notin {"open", "magic"}
        /\ file.exists /\ Len(file.bytes) >= 4
        /\ SubSeq(file.bytes, 1, 4) # SignatureBytes) =>
           /\ Done
           /\ vret = Err(ParseError)
           /\ pos = 4
           /\ Len(fields) = 1
           /\ header = None
    /\ header.some => header.v.magic_number = SignatureBytes

\* C6's case: a file that starts "VMDK", the signature in the wrong byte order,
\* is refused with the cursor at 4.
C6_Witness ==
    /\ Done /\ vret = Err(ParseError) /\ pos = 4
    /\ SubSeq(file.bytes, 1, 4) = <<86, 77, 68, 75>>
    /\ Len(file.bytes) > 78

\* C9 (as claimed): when desc_size * 512 does not fit the unsigned range, the
\* extraction fails with an error value; Vmdk::new never goes on to allocate or
\* read with a byte count that wrapped.
C9_OverflowIsAnError ==
    (header.some /\ DescSizeInBytes(header.v.desc_size).overflow) =>
        /\ pc \notin {"alloc", "read", "decode"}
        /\ Done => IsErr(vret)

=============================================================================
